---- MODULE Spec2Model ----
(***************************************************************************)
(* RecursiveRetrieverToolSpec (llama_hub/tools/recursive_retriever/base.py) *)
(* as a state machine: the constructor, statement by statement, then the   *)
(* facade's two operations, query and query_keys.  The retrieval framework *)
(* the constructor wires together is the environment: each of its calls    *)
(* either raises or yields the object the call site asks for, and the      *)
(* similarity ranking of the routing index is chosen when the index is     *)
(* built.                                                                  *)
(***************************************************************************)
EXTENDS Integers, Sequences, FiniteSets, TLC

\* ---------------------------------------------------------------- bounds
MaxKeys == 2
MaxCalls == 2

\* Keys are strings, kept as sequences of characters so that formatting a key
\* into a text is something that can be looked at.
KeyUniverse == {<<"a">>, <<"b">>, <<"a", "b">>}
DocLists == {<<"d1">>, <<"d1", "d2">>}
Queries == {"q1", "q2"}
Errors == {"EmbeddingError", "LLMError"}

\* Python's None, and the value of a name not bound yet.
None == [none |-> TRUE]

\* The query text before any query() call.
NoText == ""

\* ServiceContext objects: the caller's, or ServiceContext.from_defaults().
CustomContext == [service_context |-> "custom"]

DefaultContext == [service_context |-> "default"]

\* An exception object of the framework.
Exception(e) == [error |-> e]

\* ------------------------------------------------------------- helpers
Range(s) == {s[j] : j \in 1..Len(s)}

Min(a, b) == IF a < b THEN a ELSE b

\* sub occurs in s as a contiguous run (Python's `sub in s` on strings).
Contains(s, sub) ==
    \E j \in 0..(Len(s) - Len(sub)) :
        \A m \in 1..Len(sub) : s[j + m] = sub[m]

\* A dict literal/assignment d[k] = v.
DictPut(d, k, v) == [x \in (DOMAIN d) \cup {k} |-> IF x = k THEN v ELSE d[x]]

EmptyDict == [x \in {} |-> None]

\* agent_documents.items(): the (key, documents) pairs of a dict, in
\* insertion order; a dict holds each key once.
DictItems ==
    UNION {
        {s \in [1..n -> [key : KeyUniverse, documents : DocLists]] :
            \A a, b \in 1..n : a # b => s[a].key # s[b].key}
        : n \in 0..MaxKeys}

\* ------------------------------------------------------ module constants
\* DEFAULT_SUMMARY.format(key=key)
DEFAULT_SUMMARY(key) ==
    <<"This content contains information about ">> \o key
    \o <<". Use this index if you need to lookup specific facts about ">> \o key
    \o <<". Do not use this index if you want to analyze multiple keys.">>

\* A router that returns the two nearest nodes.
similarity_top_k_two == 1 + 1

\* as_retriever(similarity_top_k=1)
similarity_top_k == 1

\* ------------------------------------------------------------------ state
VARIABLES
    agent_documents,      \* constructor argument: the dict's items, in order
    service_context,      \* constructor argument, then the local of that name
    pc,                   \* where the constructor is; "ready" once it returned
    i,                    \* items of agent_documents the loop has consumed
    agents,               \* local dict: key -> sub-agent
    nodes,                \* local list of IndexNode
    vector_retriever,     \* local: the routing retriever, or None
    recursive_retriever,  \* local, or None
    response_synthesizer, \* local, or None
    self_query_engine,    \* attribute self.query_engine, or None
    self_keys,            \* attribute self.keys, or None
    ctor_error,           \* the exception __init__ raised, or None
    created,              \* history: _create_subagent calls per key
    qpc,                  \* where the running query() call is; "idle" if none
    text,                 \* the query text of the running/last query() call
    hits,                 \* index ids the routing retriever returned
    answers,              \* the sub-agents' responses
    invoked,              \* history: sub-agents queried in this call, in order
    forwarded,            \* history: the query texts handed to sub-agents
    trace,                \* history: the steps of this call, in order
    fault,                \* history: the failure injected in this call, or None
    outcome,              \* what the last query() call gave its caller
    calls,                \* history: query() calls started
    routed,               \* history: query text -> keys it was ever routed to
    routings,             \* history: query text -> times it was routed
    keysResult            \* <<s>> when the latest facade call was query_keys()
                          \* and returned s, <<>> otherwise

ctorVars == <<agent_documents, service_context, pc, i, agents, nodes,
              vector_retriever, recursive_retriever, response_synthesizer,
              self_query_engine, self_keys, ctor_error, created>>

callVars == <<qpc, text, hits, answers, invoked, forwarded, trace, fault,
              outcome, calls, routed, routings>>

vars == <<agent_documents, service_context, pc, i, agents, nodes,
          vector_retriever, recursive_retriever, response_synthesizer,
          self_query_engine, self_keys, ctor_error, created,
          qpc, text, hits, answers, invoked, forwarded, trace, fault,
          outcome, calls, routed, routings, keysResult>>

\* The keys of the mapping handed to the constructor.
K == {agent_documents[j].key : j \in 1..Len(agent_documents)}

DocumentsOf(k) ==
    agent_documents[CHOOSE j \in 1..Len(agent_documents) :
                        agent_documents[j].key = k].documents

\* ------------------------------------------------------ sub-agent factory
\* ToolMetadata descriptions: f-strings with the key formatted in.
\* The summary tool's description with the f of the f-string lost.
SummaryToolDescription_literal(key) ==
    <<"Useful for retrieving specific context from {key}">>

VectorToolDescription(key) ==
    <<"Useful for summarization questions related to ">> \o key

SummaryToolDescription(key) ==
    <<"Useful for retrieving specific context from ">> \o key

\* _create_subagent(documents, service_context, key, agent) when no framework
\* call in it raises: two engines over `documents`, wrapped as two tools,
\* handed to agent.from_tools.
_create_subagent(documents, sc, key) ==
    LET vector_engine == [index |-> "VectorStoreIndex", documents |-> documents,
                          service_context |-> sc]
        summary_engine == [index |-> "SummaryIndex", documents |-> documents,
                           service_context |-> sc]
        query_engine_tools ==
            << [query_engine |-> vector_engine,
                name |-> "vector_tool",
                description |-> VectorToolDescription(key)],
               [query_engine |-> summary_engine,
                name |-> "summary_tool",
                description |-> SummaryToolDescription(key)] >>
    IN  [tools |-> query_engine_tools, llm |-> sc]

\* An IndexNode identified by its text instead of its key.
IndexNode_text_id(key) ==
    [text |-> DEFAULT_SUMMARY(key), index_id |-> DEFAULT_SUMMARY(key)]

\* IndexNode(text=DEFAULT_SUMMARY.format(key=key), index_id=key)
IndexNode(key) == [text |-> DEFAULT_SUMMARY(key), index_id |-> key]

\* ------------------------------------------------------------ constructor
Init ==
    /\ agent_documents \in DictItems
    /\ service_context \in {None, CustomContext}
    /\ pc = "start"
    /\ i = 0
    /\ agents = EmptyDict
    /\ nodes = <<>>
    /\ vector_retriever = None
    /\ recursive_retriever = None
    /\ response_synthesizer = None
    /\ self_query_engine = None
    /\ self_keys = None
    /\ ctor_error = None
    /\ created = [k \in KeyUniverse |-> 0]
    /\ qpc = "idle"
    /\ text = NoText
    /\ hits = <<>>
    /\ answers = <<>>
    /\ invoked = <<>>
    /\ forwarded = <<>>
    /\ trace = <<>>
    /\ fault = None
    /\ outcome = None
    /\ calls = 0
    /\ routed = [q \in Queries |-> {}]
    /\ routings = [q \in Queries |-> 0]
    /\ keysResult = <<>>

\* An exception leaving __init__: nothing catches it, the statement that was
\* to run next never runs.
CtorRaise(e) ==
    /\ pc' = "raised"
    /\ ctor_error' = Exception(e)

\* if not service_context: service_context = ServiceContext.from_defaults()
CtorServiceContext ==
    /\ pc = "start"
    /\ \/ /\ service_context = None
          /\ service_context' = DefaultContext
          /\ pc' = "loop"
          /\ UNCHANGED ctor_error
       \/ /\ service_context = None
          /\ \E e \in Errors : CtorRaise(e)
          /\ UNCHANGED service_context
       \/ /\ service_context # None
          /\ pc' = "loop"
          /\ UNCHANGED <<service_context, ctor_error>>
    /\ UNCHANGED <<agent_documents, i, agents, nodes, vector_retriever,
                   recursive_retriever, response_synthesizer,
                   self_query_engine, self_keys, created, keysResult>>
    /\ UNCHANGED callVars

\* The loop body with the failing key skipped (try/except: continue).
CtorLoopFailure_skips_key ==
    /\ i' = i + 1
    /\ UNCHANGED <<agents, nodes, pc, ctor_error>>

\* _create_subagent raising inside the loop: the loop has no handler, the
\* exception leaves __init__.
CtorLoopFailure ==
    /\ \E e \in Errors : CtorRaise(e)
    /\ UNCHANGED <<agents, nodes, i>>

\* One iteration of `for key, documents in agent_documents.items()`.
CtorLoop ==
    /\ pc = "loop"
    /\ i < Len(agent_documents)
    /\ LET key == agent_documents[i + 1].key
           documents == agent_documents[i + 1].documents
       IN  /\ created' = [created EXCEPT ![key] = @ + 1]
           /\ \/ /\ agents' = DictPut(agents, key,
                                 _create_subagent(documents, service_context, key))
                 /\ nodes' = Append(nodes, IndexNode(key))
                 /\ i' = i + 1
                 /\ UNCHANGED <<pc, ctor_error>>
              \/ CtorLoopFailure
    /\ UNCHANGED <<agent_documents, service_context, vector_retriever,
                   recursive_retriever, response_synthesizer,
                   self_query_engine, self_keys, keysResult>>
    /\ UNCHANGED callVars

\* A constructor that refuses an empty node list itself.
VectorIndexFailure_rejects_empty ==
    IF nodes = <<>>
    THEN CtorRaise("ValueError")
    ELSE \E e \in Errors : CtorRaise(e)

\* VectorStoreIndex(nodes, ...) raising: only the framework raises here, the
\* constructor places no condition of its own on nodes.
VectorIndexFailure == \E e \in Errors : CtorRaise(e)

\* VectorStoreIndex(nodes, ...).as_retriever(similarity_top_k=1).  Embedding
\* the nodes fixes, for every query text, which node is nearest; the other
\* nodes follow in index order.
CtorVectorRetriever ==
    /\ pc = "loop"
    /\ i = Len(agent_documents)
    /\ \/ /\ \E nearest \in [Queries -> IF nodes = <<>> THEN {0}
                                        ELSE 1..Len(nodes)] :
                vector_retriever' = [nodes |-> nodes, nearest |-> nearest,
                                     similarity_top_k |-> similarity_top_k]
          /\ pc' = "recursive"
          /\ UNCHANGED ctor_error
       \/ /\ VectorIndexFailure
          /\ UNCHANGED vector_retriever
    /\ UNCHANGED <<agent_documents, service_context, i, agents, nodes,
                   recursive_retriever, response_synthesizer,
                   self_query_engine, self_keys, created, keysResult>>
    /\ UNCHANGED callVars

\* RecursiveRetriever("vector", retriever_dict={"vector": vector_retriever},
\*                    query_engine_dict=agents)
CtorRecursiveRetriever ==
    /\ pc = "recursive"
    /\ recursive_retriever' =
           [root_id |-> "vector",
            retriever_dict |-> [x \in {"vector"} |-> vector_retriever],
            query_engine_dict |-> "agents"]
    /\ pc' = "synth"
    /\ UNCHANGED <<agent_documents, service_context, i, agents, nodes,
                   vector_retriever, response_synthesizer, self_query_engine,
                   self_keys, ctor_error, created, keysResult>>
    /\ UNCHANGED callVars

\* get_response_synthesizer(service_context=..., response_mode="compact")
CtorSynthesizer ==
    /\ pc = "synth"
    /\ \/ /\ response_synthesizer' = [response_mode |-> "compact",
                                      service_context |-> service_context]
          /\ pc' = "engine"
          /\ UNCHANGED ctor_error
       \/ /\ \E e \in Errors : CtorRaise(e)
          /\ UNCHANGED response_synthesizer
    /\ UNCHANGED <<agent_documents, service_context, i, agents, nodes,
                   vector_retriever, recursive_retriever, self_query_engine,
                   self_keys, created, keysResult>>
    /\ UNCHANGED callVars

\* self.query_engine = RetrieverQueryEngine.from_args(recursive_retriever, ...)
CtorQueryEngine ==
    /\ pc = "engine"
    /\ \/ /\ self_query_engine' = [retriever |-> recursive_retriever,
                                   response_synthesizer |-> response_synthesizer]
          /\ pc' = "keys"
          /\ UNCHANGED ctor_error
       \/ /\ \E e \in Errors : CtorRaise(e)
          /\ UNCHANGED self_query_engine
    /\ UNCHANGED <<agent_documents, service_context, i, agents, nodes,
                   vector_retriever, recursive_retriever, response_synthesizer,
                   self_keys, created, keysResult>>
    /\ UNCHANGED callVars

\* self.keys = agents.keys(): a view of the local dict, not a copy.
CtorKeys ==
    /\ pc = "keys"
    /\ self_keys' = [view_of |-> "agents"]
    /\ pc' = "ready"
    /\ UNCHANGED <<agent_documents, service_context, i, agents, nodes,
                   vector_retriever, recursive_retriever, response_synthesizer,
                   self_query_engine, ctor_error, created, keysResult>>
    /\ UNCHANGED callVars

\* ------------------------------------------------------------------ query
\* query() is `return self.query_engine.query(query)`: no try, no loop.  What
\* the engine raises is what the caller gets, and what it returns likewise.
Propagate_swallow(e) == [kind |-> "return", value |-> <<>>]

Propagate(e) == [kind |-> "raise", error |-> e]

Return(v) == [kind |-> "return", value |-> v]

\* A router whose answer drifts with the number of calls made.
Retrieved_stateful(r, q) ==
    LET n == Len(r.nodes)
        first == IF n = 0 THEN 0 ELSE ((r.nearest[q] + calls) % n) + 1
    IN  IF n = 0 THEN <<>> ELSE <<r.nodes[first].index_id>>

\* The routing retriever's answer to a query text: the nearest node first,
\* the others in index order, cut to similarity_top_k.
Retrieved(r, q) ==
    LET n == Len(r.nodes)
        first == r.nearest[q]
        others == SelectSeq([j \in 1..n |-> j], LAMBDA j : j # first)
        order == IF n = 0 THEN <<>> ELSE <<first>> \o others
        cut == SubSeq(order, 1, Min(r.similarity_top_k, n))
    IN  [j \in 1..Len(cut) |-> r.nodes[cut[j]].index_id]

\* The routing node's summary handed on instead of the caller's text.
ForwardedText_summary == "This content contains information about"

\* The query text the recursive retriever hands to a sub-agent.
ForwardedText == text

\* query() building the sub-agents again on every call.
QueryFrame_rebuilds ==
    /\ created' = [k \in KeyUniverse |->
                      IF k \in DOMAIN agents THEN created[k] + 1 ELSE created[k]]
    /\ UNCHANGED <<agent_documents, service_context, pc, i, agents, nodes,
                   vector_retriever, recursive_retriever, response_synthesizer,
                   self_query_engine, self_keys, ctor_error>>

\* query() assigns nothing: no attribute, no sub-agent, no index.
QueryFrame == UNCHANGED ctorVars

\* A sub-agent's response to a query text.
AgentResponse(key, q) == [agent |-> key, query |-> q]

\* query(query): the call enters self.query_engine.query.
Query(q) ==
    /\ pc = "ready"
    /\ qpc = "idle"
    /\ calls < MaxCalls
    /\ calls' = calls + 1
    /\ text' = q
    /\ qpc' = "resolve"
    /\ trace' = <<"received">>
    /\ hits' = <<>>
    /\ answers' = <<>>
    /\ invoked' = <<>>
    /\ forwarded' = <<>>
    /\ fault' = None
    /\ outcome' = None
    /\ keysResult' = <<>>
    /\ UNCHANGED <<routed, routings>>
    /\ QueryFrame

\* The root retriever ("vector") of the recursive retriever resolves the
\* query text to index ids.
Resolve ==
    /\ qpc = "resolve"
    /\ trace' = Append(trace, "resolve")
    /\ LET rr == self_query_engine.retriever
           found == Retrieved(rr.retriever_dict[rr.root_id], text)
       IN  \/ /\ found # <<>>
              /\ hits' = found
              /\ routed' = [routed EXCEPT ![text] = @ \cup Range(found)]
              /\ routings' = [routings EXCEPT ![text] = @ + 1]
              /\ qpc' = "delegate"
              /\ UNCHANGED <<fault, outcome>>
           \/ \* no node in the index: no routing target, the call ends here
              /\ found = <<>>
              /\ qpc' = "idle"
              /\ \/ /\ outcome' = Return(<<>>)
                    /\ UNCHANGED fault
                 \/ \E e \in Errors :
                       /\ fault' = [step |-> "resolve", error |-> e]
                       /\ outcome' = Propagate(e)
              /\ UNCHANGED <<hits, routed, routings>>
           \/ \E e \in Errors :
                 /\ fault' = [step |-> "resolve", error |-> e]
                 /\ outcome' = Propagate(e)
                 /\ qpc' = "idle"
                 /\ UNCHANGED <<hits, routed, routings>>
    /\ UNCHANGED <<text, answers, invoked, forwarded, calls>>
    /\ UNCHANGED ctorVars
    /\ UNCHANGED keysResult

\* For every index id resolved, in order, the recursive retriever looks the
\* id up in query_engine_dict (the agents dict) and queries that sub-agent.
Delegate ==
    /\ qpc = "delegate"
    /\ trace' = Append(trace, "delegate")
    /\ LET n == Len(hits)
           missing == {j \in 1..n : hits[j] \notin DOMAIN agents}
           firstMissing == IF missing = {} THEN n + 1
                           ELSE CHOOSE j \in missing : \A m \in missing : j <= m
       IN  \E failAt \in 1..(n + 1) :
              IF failAt = n + 1 /\ firstMissing = n + 1
              THEN /\ invoked' = hits
                   /\ forwarded' = [j \in 1..n |-> ForwardedText]
                   /\ answers' = [j \in 1..n |-> AgentResponse(hits[j], ForwardedText)]
                   /\ qpc' = "synthesize"
                   /\ UNCHANGED <<fault, outcome>>
              ELSE IF firstMissing <= failAt
              THEN /\ invoked' = SubSeq(hits, 1, firstMissing - 1)
                   /\ forwarded' = [j \in 1..(firstMissing - 1) |-> ForwardedText]
                   /\ fault' = [step |-> "delegate", error |-> "ValueError"]
                   /\ outcome' = Propagate("ValueError")
                   /\ qpc' = "idle"
                   /\ UNCHANGED answers
              ELSE /\ invoked' = SubSeq(hits, 1, failAt)
                   /\ forwarded' = [j \in 1..failAt |-> ForwardedText]
                   /\ \E e \in Errors :
                         /\ fault' = [step |-> "delegate", error |-> e]
                         /\ outcome' = Propagate(e)
                   /\ qpc' = "idle"
                   /\ UNCHANGED answers
    /\ UNCHANGED <<text, hits, calls, routed, routings>>
    /\ UNCHANGED ctorVars
    /\ UNCHANGED keysResult

\* The response synthesizer turns the sub-agents' responses into the answer.
Synthesize ==
    /\ qpc = "synthesize"
    /\ trace' = Append(trace, "synthesize")
    /\ qpc' = "idle"
    /\ \/ /\ outcome' = Return([response_mode |->
                                   self_query_engine.response_synthesizer.response_mode,
                                sources |-> answers])
          /\ UNCHANGED fault
       \/ \E e \in Errors :
             /\ fault' = [step |-> "synthesize", error |-> e]
             /\ outcome' = Propagate(e)
    /\ UNCHANGED <<text, hits, answers, invoked, forwarded, calls, routed, routings>>
    /\ UNCHANGED ctorVars
    /\ UNCHANGED keysResult

\* ------------------------------------------------------------- query_keys
\* self.keys taken as a copy before the loop filled the dict.
query_keys_copied_early == {}

\* `return self.keys`: the dict view, read as a set.
query_keys == IF self_keys = [view_of |-> "agents"] THEN DOMAIN agents ELSE {}

QueryKeys ==
    /\ pc = "ready"
    /\ qpc = "idle"
    /\ keysResult' = <<query_keys>>
    /\ UNCHANGED ctorVars
    /\ UNCHANGED callVars

\* ---------------------------------------------------------- specification
Next ==
    \/ CtorServiceContext
    \/ CtorLoop
    \/ CtorVectorRetriever
    \/ CtorRecursiveRetriever
    \/ CtorSynthesizer
    \/ CtorQueryEngine
    \/ CtorKeys
    \/ \E q \in Queries : Query(q)
    \/ Resolve
    \/ Delegate
    \/ Synthesize
    \/ QueryKeys

Spec == Init /\ [][Next]_vars

\* A query() call is one synchronous call chain: once entered, each step runs.
FairSpec ==
    Spec /\ WF_vars(Resolve) /\ WF_vars(Delegate) /\ WF_vars(Synthesize)

\* ================================================================ claims
FrameworkExceptions == {Exception(e) : e \in Errors}

NodeIds == {nodes[j].index_id : j \in 1..Len(nodes)}

\* The key of the node the construction-time index ranks nearest to q.
RoutingMatch(q) == vector_retriever.nodes[vector_retriever.nearest[q]].index_id

StepOrder == <<"received", "resolve", "delegate", "synthesize">>

Returned == outcome # None /\ outcome.kind = "return"

Raised == outcome # None /\ outcome.kind = "raise"

\* C1: whatever query_keys() returns is exactly the key set of the mapping the
\* constructor was given, however many query() and query_keys() calls came
\* before it.
C1_QueryKeysExact ==
    keysResult # <<>> => keysResult[1] = K

C1_Witness ==
    /\ keysResult = <<K>>
    /\ Cardinality(K) = MaxKeys
    /\ calls = MaxCalls
    /\ Returned

\* C2: a query() call resolves to exactly one key, the routing match of its
\* text, and queries the sub-agent of that key and of no other key, at most
\* once.
C2_SingleSubAgent ==
    /\ Len(hits) <= 1
    /\ qpc \in {"delegate", "synthesize"} => Len(hits) = 1
    /\ hits # <<>> => hits[1] = RoutingMatch(text)
    /\ Len(invoked) <= 1
    /\ \A j \in 1..Len(invoked) : invoked[j] = RoutingMatch(text)
    /\ Returned /\ hits # <<>> =>
          /\ invoked = <<RoutingMatch(text)>>
          /\ \A j \in 1..Len(outcome.value.sources) :
                outcome.value.sources[j].agent = RoutingMatch(text)

C2_Witness ==
    /\ Returned
    /\ Cardinality(K) = MaxKeys
    /\ invoked = <<RoutingMatch(text)>>
    /\ \E k \in K : k # RoutingMatch(text) /\ k \notin Range(invoked)

\* C3: once constructed, the routing nodes' identifiers, the sub-agents' keys
\* and K are one set, with one node per key; the routing retriever indexes
\* these nodes, so it resolves only to keys that have a sub-agent, and no
\* lookup of a resolved key ever fails.
C3_RoutingBijection ==
    pc = "ready" =>
        /\ NodeIds = DOMAIN agents
        /\ DOMAIN agents = K
        /\ Len(nodes) = Cardinality(K)
        /\ vector_retriever.nodes = nodes
        /\ \A q \in Queries :
              Range(Retrieved(vector_retriever, q)) \subseteq DOMAIN agents
        /\ Range(hits) \subseteq DOMAIN agents
        /\ fault # None => fault.error # "ValueError"

C3_Witness ==
    /\ pc = "ready"
    /\ Cardinality(K) = MaxKeys
    /\ Returned
    /\ Range(hits) # {}

C6_SubAgentTools ==
    \A k \in DOMAIN agents :
        LET t == agents[k].tools
        IN  /\ created[k] = 1
            /\ Len(t) = 2
            /\ t[1].name = "vector_tool"
            /\ t[1].query_engine.index = "VectorStoreIndex"
            /\ t[2].name = "summary_tool"
            /\ t[2].query_engine.index = "SummaryIndex"
            /\ \A j \in 1..2 :
                  /\ t[j].query_engine.documents = DocumentsOf(k)
                  /\ Contains(t[j].description, k)

C6_Witness ==
    /\ pc = "ready"
    /\ Cardinality(DOMAIN agents) = MaxKeys
    /\ \E k1, k2 \in DOMAIN agents :
          /\ DocumentsOf(k1) # DocumentsOf(k2)
          /\ agents[k1].tools[1].query_engine.documents = DocumentsOf(k1)
          /\ agents[k2].tools[2].query_engine.documents = DocumentsOf(k2)

\* C7: a failure in a query() call ends the call at the step that failed and
\* the caller gets that very failure raised; no step runs twice, and a call
\* raises only what a step of it raised.
C7_FailurePropagates ==
    /\ fault # None =>
          /\ qpc = "idle"
          /\ outcome = [kind |-> "raise", error |-> fault.error]
          /\ trace[Len(trace)] = fault.step
    /\ Raised => fault # None /\ outcome.error = fault.error
    /\ \A a, b \in 1..Len(trace) : a # b => trace[a] # trace[b]

C7_Witness ==
    /\ fault # None
    /\ fault.step = "delegate"
    /\ Raised
    /\ outcome.error = "LLMError"
    /\ invoked # <<>>

\* The steps a query() call has taken are the first steps of the fixed order,
\* each once; a sub-agent is queried only in the delegate step, after a key
\* was resolved, and with the caller's text; the synthesizer runs only on the
\* responses of the sub-agents queried; a returned answer over a resolved key
\* went through every step.
C8_StepOrder ==
    /\ Len(trace) <= Len(StepOrder)
    /\ \A j \in 1..Len(trace) : trace[j] = StepOrder[j]
    /\ qpc = "resolve" => trace = SubSeq(StepOrder, 1, 1)
    /\ qpc = "delegate" => trace = SubSeq(StepOrder, 1, 2)
    /\ qpc = "synthesize" => trace = SubSeq(StepOrder, 1, 3)
    /\ invoked # <<>> => Len(trace) >= 3 /\ hits # <<>>
    /\ Len(forwarded) = Len(invoked)
    /\ \A j \in 1..Len(forwarded) : forwarded[j] = text
    /\ \A j \in 1..Len(answers) : answers[j].query = text
    /\ Len(trace) = Len(StepOrder) =>
          /\ answers # <<>>
          /\ Len(answers) = Len(invoked)
    /\ Returned /\ hits # <<>> =>
          /\ trace = StepOrder
          /\ outcome.value.sources = answers

C9_ReadOnlyAfterConstruction ==
    /\ [][pc = "ready" => UNCHANGED ctorVars]_vars
    /\ [](pc = "ready" =>
            \A k \in KeyUniverse : created[k] = IF k \in K THEN 1 ELSE 0)

C9_Witness ==
    /\ pc = "ready"
    /\ Cardinality(K) = MaxKeys
    /\ calls = MaxCalls
    /\ Raised
    /\ \A q \in Queries : routings[q] >= 1

\* C10: a constructor that raised has assigned neither self.query_engine nor
\* self.keys; the two are assigned only after the loop has built the
\* sub-agent of every key and the routing index exists; a constructed facade
\* holds all of K, and query_keys() never answers with less than K.
C10_AllOrNothing ==
    /\ pc = "raised" =>
          /\ ctor_error \in FrameworkExceptions
          /\ self_query_engine = None
          /\ self_keys = None
    /\ ctor_error # None => pc = "raised"
    /\ (self_query_engine # None \/ self_keys # None) =>
          /\ i = Len(agent_documents)
          /\ DOMAIN agents = K
          /\ vector_retriever # None
          /\ recursive_retriever # None
          /\ response_synthesizer # None
    /\ self_keys # None => self_query_engine # None
    /\ pc = "ready" => query_keys = K
    /\ keysResult # <<>> => ~(keysResult[1] # K /\ keysResult[1] \subseteq K)

C10_Witness ==
    /\ pc = "raised"
    /\ i >= 1
    /\ i < Len(agent_documents)
    /\ DOMAIN agents # {}
    /\ DOMAIN agents # K
    /\ self_keys = None

====
